---- MODULE Spec2Model ----
(***************************************************************************)
(* A model of the follower-resolution pipeline of instagram-reviewer:      *)
(* the checkpoint store (checkpoint.py), the rate limiter                  *)
(* (rate_limiter.py), the two lookup phases (lookup_graph_api.py,          *)
(* lookup_instaloader.py) and the lookup command that runs them (main.py). *)
(*                                                                         *)
(* Five specifications share the variables:                                *)
(*   SpecStore    the store under arbitrary import / claim / write calls   *)
(*   SpecLimiter  one RateLimiter under arbitrary calls and passing time   *)
(*   SpecClaim    get_pending on every table the store can hold            *)
(*   Spec         runs of the lookup command, with interrupts and restarts *)
(*   SpecRun      one run of the command, the process scheduled fairly     *)
(***************************************************************************)
EXTENDS Integers, Sequences, FiniteSets, TLC

VARIABLES
    followers,      \* the followers table: the set of its rows
    op,             \* the store/limiter operation called last ("none" at start)
    arg,            \* its argument
    ret,            \* its return value
    batch,          \* the claimed Followers the caller has still to process
    now,                        \* time.monotonic(), in seconds
    hourly_timestamps,          \* RateLimiter._hourly_timestamps
    daily_timestamps,           \* RateLimiter._daily_timestamps
    session_count,              \* RateLimiter._session_count
    since_long_pause,           \* RateLimiter._since_long_pause
    next_long_pause_at,         \* RateLimiter._next_long_pause_at
    consecutive_rate_limits,    \* RateLimiter._consecutive_rate_limits
    pc,                 \* where the lookup command stands
    mode,               \* lookup --mode
    result,             \* lookup_instaloader: <<result>> until it is written
    batch_had_rate_limit,   \* lookup_graph_api: batch_had_rate_limit
    graph_consecutive,  \* lookup_graph_api: consecutive_rate_limits
    processed,          \* the running phase's processed
    success_count,      \* the running phase's success_count
    skip_count,         \* lookup_graph_api: skip_count
    fail_count,         \* lookup_instaloader: fail_count
    rate_limit_count,   \* lookup_graph_api: rate_limit_count
    stop_reason,        \* lookup_instaloader: the stop_reason it returns
    exit,               \* how the command ended ("running" until then)
    restarts,           \* the number of times the process was stopped and rerun
    answered,           \* history: the usernames a source returned a profile for
    resent,             \* history: a lookup was sent for an answered username
    on_script           \* history: the run has followed the end-to-end scenario

storeVars == <<followers>>
callVars == <<op, arg, ret>>
limiterVars ==
    <<now, hourly_timestamps, daily_timestamps, session_count,
      since_long_pause, next_long_pause_at, consecutive_rate_limits>>
counterVars ==
    <<processed, success_count, skip_count, fail_count, rate_limit_count>>
historyVars == <<answered, resent, on_script>>
runVars ==
    <<pc, mode, result, batch_had_rate_limit, graph_consecutive, counterVars,
      stop_reason, exit, restarts, historyVars>>
vars == <<followers, op, arg, ret, batch, limiterVars, runVars>>

(***************************************************************************)
(* Values                                                                  *)
(***************************************************************************)

\* Python None / SQL NULL in a text column, and in an integer column.
None == "None"
NoInt == -1

\* models.py LookupStatus
PENDING == "pending"
GRAPH_API_MISS == "graph_api_miss"
SUCCESS == "success"
FAILED == "failed"
RATE_LIMITED == "rate_limited"
LookupStatus == {PENDING, GRAPH_API_MISS, SUCCESS, FAILED, RATE_LIMITED}

\* The usernames of the runs that are checked, and their order as SQLite's
\* BINARY collation of the TEXT column compares them.
Identities == {"alice", "bob", "carol"}
Rank(u) == CASE u = "alice" -> 1 [] u = "bob" -> 2 [] u = "carol" -> 3

\* The timestamp the export carries for a username.
FollowedAt(u) == 1700000000 + Rank(u)

\* models.py Follower: Follower(username=u, followed_at=t), the rest defaulted.
Follower(u, t) ==
    [username |-> u, followed_at |-> t,
     follower_count |-> NoInt, following_count |-> NoInt, full_name |-> None,
     is_verified |-> None, is_private |-> None,
     lookup_status |-> PENDING, lookup_source |-> None,
     error_message |-> None, retry_count |-> 0]

(***************************************************************************)
(* Checkpoint store (checkpoint.py)                                        *)
(***************************************************************************)

\* update_result's encoding of an Optional[bool] into an INTEGER column:
\* 1 if x else (0 if x is not None else None).
BoolToInt(x) == IF x = "True" THEN 1 ELSE IF x # None THEN 0 ELSE NoInt

\* _row_to_follower's decoding: bool(v) if v is not None else None.
IntToBool(v) == IF v # NoInt THEN (IF v # 0 THEN "True" ELSE "False") ELSE None

\* _row_to_follower: a table row as a Follower.
RowToFollower(row) ==
    [username |-> row.username, followed_at |-> row.followed_at,
     follower_count |-> row.follower_count,
     following_count |-> row.following_count,
     full_name |-> row.full_name,
     is_verified |-> IntToBool(row.is_verified),
     is_private |-> IntToBool(row.is_private),
     lookup_status |-> row.lookup_status, lookup_source |-> row.lookup_source,
     error_message |-> row.error_message, retry_count |-> row.retry_count]

\* The row INSERT INTO followers (username, followed_at, lookup_status) makes:
\* the other columns take the table's defaults (NULL, retry_count 0).
InsertedRow(f) ==
    [username |-> f.username, followed_at |-> f.followed_at,
     follower_count |-> NoInt, following_count |-> NoInt, full_name |-> None,
     is_verified |-> NoInt, is_private |-> NoInt,
     lookup_status |-> PENDING, lookup_source |-> None,
     error_message |-> None, retry_count |-> 0]

\* Mutant: the username column without its PRIMARY KEY.
IntegrityError_NoKey(table, f) == FALSE

\* username TEXT PRIMARY KEY: the INSERT raises IntegrityError when a row
\* with the username exists.
IntegrityError(table, f) == \E row \in table : row.username = f.username

\* import_from_export: the loop over the list from its k-th item on, with the
\* table and the two counters so far.
RECURSIVE ImportLoop(_, _, _, _, _)
ImportLoop(table, list, k, imported, skipped) ==
    IF k > Len(list)
    THEN [table |-> table, imported |-> imported, skipped |-> skipped]
    ELSE IF IntegrityError(table, list[k])
         THEN ImportLoop(table, list, k + 1, imported, skipped + 1)
         ELSE ImportLoop(table \cup {InsertedRow(list[k])}, list, k + 1,
                         imported + 1, skipped)

\* Mutant: INSERT OR REPLACE, a duplicate replacing the stored row.
RECURSIVE ReplaceLoop(_, _, _, _, _)
ReplaceLoop(table, list, k, imported, skipped) ==
    IF k > Len(list)
    THEN [table |-> table, imported |-> imported, skipped |-> skipped]
    ELSE IF IntegrityError(table, list[k])
         THEN ReplaceLoop({row \in table : row.username # list[k].username}
                              \cup {InsertedRow(list[k])},
                          list, k + 1, imported, skipped + 1)
         ELSE ReplaceLoop(table \cup {InsertedRow(list[k])}, list, k + 1,
                          imported + 1, skipped)

import_or_replace(table, list) == ReplaceLoop(table, list, 1, 0, 0)

import_from_export(table, list) == ImportLoop(table, list, 1, 0, 0)

\* Mutant: ORDER BY username ASC alone.
PendingBefore_ByName(a, b) == Rank(a.username) < Rank(b.username)

\* ORDER BY retry_count ASC, username ASC: whether row a sorts before row b.
PendingBefore(a, b) ==
    \/ a.retry_count < b.retry_count
    \/ a.retry_count = b.retry_count /\ Rank(a.username) < Rank(b.username)

\* Mutant: WHERE lookup_status != 'success' AND retry_count < ?
PendingWhere_NotSuccess(row, max_retries) ==
    /\ row.lookup_status # SUCCESS
    /\ row.retry_count < max_retries

\* Mutant: retry_count <= ?
PendingWhere_Inclusive(row, max_retries) ==
    /\ row.lookup_status \in {PENDING, RATE_LIMITED}
    /\ row.retry_count <= max_retries

\* Mutant: no condition on the status.
PendingWhere_AnyStatus(row, max_retries) == row.retry_count < max_retries

\* WHERE lookup_status IN ('pending', 'rate_limited') AND retry_count < ?
PendingWhere(row, max_retries) ==
    /\ row.lookup_status \in {PENDING, RATE_LIMITED}
    /\ row.retry_count < max_retries

\* The selected rows in ORDER BY order: the row that sorts before every other
\* one, then the rest.
RECURSIVE OrderRows(_)
OrderRows(rows) ==
    IF rows = {} THEN <<>>
    ELSE LET first == CHOOSE r \in rows :
                          \A o \in rows \ {r} : ~PendingBefore(o, r)
         IN  <<first>> \o OrderRows(rows \ {first})

\* LIMIT ?: the first n rows (all of them when n is negative, as in SQLite).
LimitRows(s, n) == IF n < 0 \/ n >= Len(s) THEN s ELSE SubSeq(s, 1, n)

\* get_pending(batch_size, max_retries): the list of Followers it returns.
get_pending(table, batch_size, max_retries) ==
    LET selected == {row \in table : PendingWhere(row, max_retries)}
        rows == LimitRows(OrderRows(selected), batch_size)
    IN  [i \in DOMAIN rows |-> RowToFollower(rows[i])]

\* Mutant: an UPDATE that sets the status and leaves the other columns.
UpdatedRow_StatusOnly(row, f) == [row EXCEPT !.lookup_status = f.lookup_status]

\* update_result: UPDATE followers SET ... WHERE username = ?. Every column
\* but username and followed_at is replaced; a username with no row updates
\* nothing.
UpdatedRow(row, f) ==
    [username |-> row.username,
     followed_at |-> row.followed_at,
     follower_count |-> f.follower_count,
     following_count |-> f.following_count,
     full_name |-> f.full_name,
     is_verified |-> BoolToInt(f.is_verified),
     is_private |-> BoolToInt(f.is_private),
     lookup_status |-> f.lookup_status,
     lookup_source |-> f.lookup_source,
     error_message |-> f.error_message,
     retry_count |-> f.retry_count]

update_result(table, f) ==
    {IF row.username = f.username THEN UpdatedRow(row, f) ELSE row : row \in table}

(***************************************************************************)
(* Rate limiter (rate_limiter.py)                                          *)
(*                                                                         *)
(* Times are seconds.  The limiter is checked under a configuration whose  *)
(* durations are multiples of Tick, so that every clock read lies on a     *)
(* grid: random.uniform(a, b) is taken at its two ends.                    *)
(***************************************************************************)

\* The windows of check_hourly_cap and _prune_daily.
HourWindow == 3600
DayWindow == 86400

\* RateLimiter.__init__: the configuration.
min_delay == 0
max_delay == 1800
session_rest == 1800
rate_limit_cooldown == 1800
long_pause_min == 1800
long_pause_max == 3600
long_pause_interval_min == 2
long_pause_interval_max == 3
\* The caps, scaled down.
hourly_cap == 1
session_cap == 2
daily_cap == 3

\* The step of the grid of clock reads: the shortest duration slept.
Tick == rate_limit_cooldown

RECURSIVE Pow2(_)
Pow2(n) == IF n <= 0 THEN 1 ELSE 2 * Pow2(n - 1)

\* _prune_old / _prune_daily: popleft while timestamps[0] < cutoff.
RECURSIVE PruneOld(_, _)
PruneOld(timestamps, cutoff) ==
    IF timestamps # <<>> /\ Head(timestamps) < cutoff
    THEN PruneOld(Tail(timestamps), cutoff)
    ELSE timestamps

\* Mutant: popleft while timestamps[0] <= cutoff.
PrunedDaily_Inclusive(t) ==
    SelectSeq(daily_timestamps, LAMBDA x : x > t - DayWindow)

\* The daily deque after _prune_daily at time t.
PrunedDaily(t) == PruneOld(daily_timestamps, t - DayWindow)

\* The hourly deque after _prune_old(self._hourly_timestamps, 3600) at time t.
PrunedHourly(t) == PruneOld(hourly_timestamps, t - HourWindow)

\* Mutant: the daily cap compared with ==.
check_daily_cap_Exact == Len(PrunedDaily(now)) = daily_cap

\* check_daily_cap, check_session_cap, check_hourly_cap: what they return.
check_daily_cap == Len(PrunedDaily(now)) >= daily_cap

\* Mutant: the session cap compared with >.
check_session_cap_Above == session_count > session_cap

check_session_cap == session_count >= session_cap

check_hourly_cap == Len(PrunedHourly(now)) >= hourly_cap

\* The hourly branch's wait_time: 3600 - (now - oldest), when the cap is
\* reached and the deque is not empty; 0 stands for no wait.
HourlyWait ==
    IF check_hourly_cap /\ PrunedHourly(now) # <<>>
    THEN HourWindow - (now - Head(PrunedHourly(now)))
    ELSE 0

\* The clock reads that are explored: the first MaxTicks ticks of each of
\* the first MaxDays + 1 days.
MaxTicks == 4
MaxDays == 1
Explored(t) ==
    /\ t <= MaxDays * DayWindow + MaxTicks * Tick
    /\ t % DayWindow <= MaxTicks * Tick

\* wait_before_request, its branches in the order of the code.  ret is
\* <<what it did, the seconds it slept>>.
AdmitDailyStop ==
    /\ check_daily_cap
    /\ daily_timestamps' = PrunedDaily(now)
    /\ ret' = <<"StopIteration", 0>>
    /\ UNCHANGED <<now, hourly_timestamps, session_count, since_long_pause,
                   next_long_pause_at, consecutive_rate_limits>>

\* Mutant: the session counter left as it is after the rest.
SessionCountAfterRest_Kept == session_count

\* self._session_count = 0
SessionCountAfterRest == 0

AdmitSessionRest ==
    /\ ~check_daily_cap
    /\ check_session_cap
    /\ Explored(now + session_rest)
    /\ now' = now + session_rest
    /\ session_count' = SessionCountAfterRest
    /\ daily_timestamps' = PrunedDaily(now)
    /\ ret' = <<"session rest", session_rest>>
    /\ UNCHANGED <<hourly_timestamps, since_long_pause, next_long_pause_at,
                   consecutive_rate_limits>>

AdmitHourlyWait ==
    /\ ~check_daily_cap
    /\ ~check_session_cap
    /\ HourlyWait > 0
    /\ Explored(now + HourlyWait)
    /\ now' = now + HourlyWait
    /\ daily_timestamps' = PrunedDaily(now)
    /\ hourly_timestamps' = PrunedHourly(now)
    /\ ret' = <<"hourly cap wait", HourlyWait>>
    /\ UNCHANGED <<session_count, since_long_pause, next_long_pause_at,
                   consecutive_rate_limits>>

AdmitLongPause ==
    /\ ~check_daily_cap
    /\ ~check_session_cap
    /\ ~(HourlyWait > 0)
    /\ since_long_pause >= next_long_pause_at
    /\ \E pause \in {long_pause_min, long_pause_max},
          interval \in long_pause_interval_min..long_pause_interval_max :
        /\ Explored(now + pause)
        /\ now' = now + pause
        /\ since_long_pause' = 0
        /\ next_long_pause_at' = interval
        /\ ret' = <<"long pause", pause>>
    /\ daily_timestamps' = PrunedDaily(now)
    /\ hourly_timestamps' = PrunedHourly(now)
    /\ UNCHANGED <<session_count, consecutive_rate_limits>>

AdmitDelay ==
    /\ ~check_daily_cap
    /\ ~check_session_cap
    /\ ~(HourlyWait > 0)
    /\ ~(since_long_pause >= next_long_pause_at)
    /\ \E delay \in {min_delay, max_delay} :
        /\ Explored(now + delay)
        /\ now' = now + delay
        /\ ret' = <<"delay", delay>>
    /\ daily_timestamps' = PrunedDaily(now)
    /\ hourly_timestamps' = PrunedHourly(now)
    /\ UNCHANGED <<session_count, since_long_pause, next_long_pause_at,
                   consecutive_rate_limits>>

wait_before_request ==
    \/ AdmitDailyStop
    \/ AdmitSessionRest
    \/ AdmitHourlyWait
    \/ AdmitLongPause
    \/ AdmitDelay

record_request ==
    /\ hourly_timestamps' = Append(hourly_timestamps, now)
    /\ daily_timestamps' = Append(daily_timestamps, now)
    /\ session_count' = session_count + 1
    /\ since_long_pause' = since_long_pause + 1
    /\ consecutive_rate_limits' = 0
    /\ UNCHANGED <<now, next_long_pause_at>>

\* Mutant: a backoff that does not grow.
Backoff_Flat(consecutive) == rate_limit_cooldown

\* handle_rate_limit: the backoff it sleeps.
Backoff(consecutive) == rate_limit_cooldown * Pow2(consecutive - 1)

\* Mutant: the rate-limit signal counted as a request of the session.
handle_rate_limit_Counted ==
    /\ consecutive_rate_limits' = consecutive_rate_limits + 1
    /\ now' = now + Backoff(consecutive_rate_limits + 1)
    /\ session_count' = session_count + 1
    /\ UNCHANGED <<hourly_timestamps, daily_timestamps,
                   since_long_pause, next_long_pause_at>>

handle_rate_limit ==
    /\ consecutive_rate_limits' = consecutive_rate_limits + 1
    /\ now' = now + Backoff(consecutive_rate_limits + 1)
    /\ UNCHANGED <<hourly_timestamps, daily_timestamps, session_count,
                   since_long_pause, next_long_pause_at>>

\* RateLimiter.__init__: the state of a new limiter.
LimiterInit ==
    /\ now = 0
    /\ hourly_timestamps = <<>>
    /\ daily_timestamps = <<>>
    /\ session_count = 0
    /\ since_long_pause = 0
    /\ next_long_pause_at \in long_pause_interval_min..long_pause_interval_max
    /\ consecutive_rate_limits = 0

\* No limiter constructed: the variables at rest.
NoLimiter ==
    /\ now = 0
    /\ hourly_timestamps = <<>>
    /\ daily_timestamps = <<>>
    /\ session_count = 0
    /\ since_long_pause = 0
    /\ next_long_pause_at = 0
    /\ consecutive_rate_limits = 0

\* No lookup command running: the variables of the run at rest.
NoRun ==
    /\ pc = "idle"
    /\ mode = None
    /\ result = <<>>
    /\ batch_had_rate_limit = FALSE
    /\ graph_consecutive = 0
    /\ processed = 0
    /\ success_count = 0
    /\ skip_count = 0
    /\ fail_count = 0
    /\ rate_limit_count = 0
    /\ stop_reason = None
    /\ exit = "running"
    /\ restarts = 0
    /\ answered = {}
    /\ resent = FALSE
    /\ on_script = FALSE

(***************************************************************************)
(* SpecLimiter: one RateLimiter under any sequence of its three calls,     *)
(* with time passing between them.                                         *)
(***************************************************************************)

\* record_request is tried while the daily deque holds at most daily_cap
\* events (so one past the cap is reached).
LimiterAdmit ==
    /\ wait_before_request
    /\ op' = "wait_before_request"
    /\ arg' = None
    /\ UNCHANGED <<followers, batch, runVars>>

LimiterRecord ==
    /\ Len(daily_timestamps) <= daily_cap
    /\ record_request
    /\ op' = "record_request"
    /\ arg' = None
    /\ ret' = None
    /\ UNCHANGED <<followers, batch, runVars>>

LimiterThrottle ==
    /\ Explored(now + Backoff(consecutive_rate_limits + 1))
    /\ handle_rate_limit
    /\ op' = "handle_rate_limit"
    /\ arg' = None
    /\ ret' = <<"backoff", Backoff(consecutive_rate_limits + 1)>>
    /\ UNCHANGED <<followers, batch, runVars>>

\* Time passing between two calls: a tick, or a day.
LimiterElapse ==
    /\ \E d \in {Tick, DayWindow} :
        /\ Explored(now + d)
        /\ now' = now + d
    /\ op' = "elapse"
    /\ arg' = None
    /\ ret' = None
    /\ UNCHANGED <<followers, batch, hourly_timestamps, daily_timestamps,
                   session_count, since_long_pause, next_long_pause_at,
                   consecutive_rate_limits, runVars>>

InitLimiter ==
    /\ followers = {}
    /\ batch = <<>>
    /\ op = "none"
    /\ arg = None
    /\ ret = None
    /\ LimiterInit
    /\ NoRun

NextLimiter ==
    LimiterAdmit \/ LimiterRecord \/ LimiterThrottle \/ LimiterElapse

SpecLimiter == InitLimiter /\ [][NextLimiter]_vars

(***************************************************************************)
(* SpecBackoff: one RateLimiter under any sequence of handle_rate_limit    *)
(* and record_request calls made back to back, so that the sleeps of       *)
(* several consecutive signals are seen whole.                             *)
(***************************************************************************)

\* Most consecutive rate-limit signals, and most recorded requests.
MaxThrottles == 3
MaxRecords == 3

BackoffThrottle ==
    /\ consecutive_rate_limits < MaxThrottles
    /\ handle_rate_limit
    /\ op' = "handle_rate_limit"
    /\ arg' = None
    /\ ret' = <<"backoff", Backoff(consecutive_rate_limits + 1)>>
    /\ UNCHANGED <<followers, batch, runVars>>

BackoffRecord ==
    /\ Len(daily_timestamps) < MaxRecords
    /\ record_request
    /\ op' = "record_request"
    /\ arg' = None
    /\ ret' = None
    /\ UNCHANGED <<followers, batch, runVars>>

NextBackoff == BackoffThrottle \/ BackoffRecord

SpecBackoff == InitLimiter /\ [][NextBackoff]_vars

(***************************************************************************)
(* SpecStore: the store under any sequence of import, claim and write, the *)
(* writes being results for the items of the batch claimed last, in order  *)
(* (the loops of both phases).  SpecClaim: get_pending on every table.     *)
(***************************************************************************)

\* Bounds of the calls that are tried.
MaxImportLen == 2
MaxRetryCount == 2

\* The usernames the store operations of SpecStore are tried on.
StoreIdentities == {"alice", "bob"}

ImportLists ==
    UNION {[1..n -> {Follower(u, FollowedAt(u)) : u \in StoreIdentities}] :
              n \in 0..MaxImportLen}

\* A claimed Follower as a lookup hands it back: any status and any
\* retry_count; a success carries metrics and a source, anything else an
\* error text.
WrittenFollower(f, st, rc) ==
    IF st = SUCCESS
    THEN [f EXCEPT
            !.follower_count = 10 * Rank(f.username),
            !.following_count = Rank(f.username),
            !.full_name = f.username,
            !.is_verified = "False", !.is_private = "True",
            !.lookup_status = st, !.lookup_source = "instaloader",
            !.error_message = None, !.retry_count = rc]
    ELSE [f EXCEPT
            !.lookup_status = st, !.error_message = "error",
            !.retry_count = rc]

RetryCounts == 0..MaxRetryCount
\* batch_size up to the number of usernames (a larger LIMIT returns the same
\* rows), max_retries up to one more than any stored retry_count.
BatchSizes == 0..Cardinality(Identities)
RetryCeilings == 0..(MaxRetryCount + 1)

StoreImport ==
    \E list \in ImportLists :
        LET r == import_from_export(followers, list) IN
        /\ followers' = r.table
        /\ op' = "import_from_export"
        /\ arg' = list
        /\ ret' = <<r.imported, r.skipped>>
        /\ UNCHANGED <<batch, limiterVars, runVars>>

StoreClaim ==
    \E batch_size \in BatchSizes, max_retries \in RetryCeilings :
        /\ op' = "get_pending"
        /\ arg' = <<batch_size, max_retries>>
        /\ ret' = get_pending(followers, batch_size, max_retries)
        /\ batch' = get_pending(followers, batch_size, max_retries)
        /\ UNCHANGED <<followers, limiterVars, runVars>>

StoreWrite ==
    /\ batch # <<>>
    /\ \E st \in LookupStatus, rc \in RetryCounts :
        /\ followers' = update_result(followers, WrittenFollower(Head(batch), st, rc))
        /\ op' = "update_result"
        /\ arg' = Head(batch).username
        /\ ret' = None
        /\ batch' = Tail(batch)
    /\ UNCHANGED <<limiterVars, runVars>>

InitStore ==
    /\ followers = {}
    /\ op = "none"
    /\ arg = None
    /\ ret = None
    /\ batch = <<>>
    /\ NoLimiter
    /\ NoRun

NextStore == StoreImport \/ StoreClaim \/ StoreWrite

SpecStore == InitStore /\ [][NextStore]_vars

\* The rows a username can have: the imported one, or one written back.
RowStates(u) ==
    {InsertedRow(Follower(u, FollowedAt(u)))} \cup
    {UpdatedRow(InsertedRow(Follower(u, FollowedAt(u))),
                WrittenFollower(Follower(u, FollowedAt(u)), st, rc)) :
        st \in LookupStatus, rc \in RetryCounts}

\* Every table import_from_export and update_result can leave: one row for
\* each of some of the usernames S.
RECURSIVE TablesOver(_)
TablesOver(S) ==
    IF S = {} THEN {{}}
    ELSE LET u == CHOOSE x \in S : TRUE
             rest == TablesOver(S \ {u})
         IN  rest \cup {T \cup {row} : T \in rest, row \in RowStates(u)}

InitClaim ==
    /\ followers \in TablesOver(Identities)
    /\ op = "none"
    /\ arg = None
    /\ ret = None
    /\ batch = <<>>
    /\ NoLimiter
    /\ NoRun

NextClaim == StoreClaim

SpecClaim == InitClaim /\ [][NextClaim]_vars

(***************************************************************************)
(* SpecExport: the two read views of the export command on any table of    *)
(* imported, failed and successful rows, the successes with follower       *)
(* counts that may be equal or NULL.                                        *)
(***************************************************************************)

\* ORDER BY follower_count DESC NULLS LAST: whether row a has to come before
\* row b.
CountBefore(a, b) ==
    /\ a.follower_count # NoInt
    /\ b.follower_count = NoInt \/ a.follower_count > b.follower_count

\* ORDER BY CASE WHEN lookup_status = 'success' THEN 0 ELSE 1 END,
\* follower_count DESC NULLS LAST, username ASC
AllBefore(a, b) ==
    LET class(r) == IF r.lookup_status = SUCCESS THEN 0 ELSE 1 IN
    \/ class(a) < class(b)
    \/ class(a) = class(b) /\ CountBefore(a, b)
    \/ /\ class(a) = class(b)
       /\ a.follower_count = b.follower_count
       /\ Rank(a.username) < Rank(b.username)

\* Every arrangement of the rows of a SELECT.  The lists a SELECT may return
\* for an ORDER BY are those in which no row comes after one it has to come
\* before (rows the ORDER BY does not tell apart come in any order).
ListsOf(rows) ==
    {s \in [1..Cardinality(rows) -> rows] :
        \A i, j \in DOMAIN s : i # j => s[i] # s[j]}

get_all_completed(table) ==
    {[i \in DOMAIN s |-> RowToFollower(s[i])] :
        s \in {l \in ListsOf({row \in table : row.lookup_status = SUCCESS}) :
                  \A i, j \in DOMAIN l : i < j => ~CountBefore(l[j], l[i])}}

get_all(table) ==
    {[i \in DOMAIN s |-> RowToFollower(s[i])] :
        s \in {l \in ListsOf(table) :
                  \A i, j \in DOMAIN l : i < j => ~AllBefore(l[j], l[i])}}

\* The follower counts a lookup may have stored: NULL, or a number.
ExportCounts == {NoInt, 10, 500}

\* The rows of a username in an export: imported, failed, or a success with
\* one of the counts.
ExportRows(u) ==
    LET f == Follower(u, FollowedAt(u)) IN
    {InsertedRow(f),
     UpdatedRow(InsertedRow(f), WrittenFollower(f, FAILED, 1))} \cup
    {UpdatedRow(InsertedRow(f),
                [WrittenFollower(f, SUCCESS, 0) EXCEPT !.follower_count = c]) :
        c \in ExportCounts}

RECURSIVE ExportTables(_)
ExportTables(S) ==
    IF S = {} THEN {{}}
    ELSE LET u == CHOOSE x \in S : TRUE
             rest == ExportTables(S \ {u})
         IN  rest \cup {T \cup {row} : T \in rest, row \in ExportRows(u)}

ExportCompleted ==
    /\ batch' \in get_all_completed(followers)
    /\ op' = "get_all_completed"
    /\ arg' = None
    /\ ret' = None
    /\ UNCHANGED <<followers, limiterVars, runVars>>

ExportAll ==
    /\ batch' \in get_all(followers)
    /\ op' = "get_all"
    /\ arg' = None
    /\ ret' = None
    /\ UNCHANGED <<followers, limiterVars, runVars>>

InitExport ==
    /\ followers \in ExportTables(Identities)
    /\ op = "none"
    /\ arg = None
    /\ ret = None
    /\ batch = <<>>
    /\ NoLimiter
    /\ NoRun

NextExport == ExportCompleted \/ ExportAll

SpecExport == InitExport /\ [][NextExport]_vars

(***************************************************************************)
(* Claims about the store                                                  *)
(***************************************************************************)

Terminal(row) == row.lookup_status \in {SUCCESS, FAILED}
Usernames(table) == {row.username : row \in table}
ListNames(list) == {list[i].username : i \in DOMAIN list}

\* C3: a row that is Resolved (success) or PermanentFailure (failed) stays so
\* under import, claim and the writes of claimed items, and no get_pending
\* call returns its username, whatever its retry_count and whatever
\* batch_size and max_retries are passed.
C3_TerminalExclusion ==
    [][/\ \A row \in followers :
            Terminal(row) =>
                \E kept \in followers' :
                    kept.username = row.username /\ Terminal(kept)
       /\ op' = "get_pending" =>
            \A row \in followers' :
                Terminal(row) =>
                    \A i \in DOMAIN ret' : ret'[i].username # row.username
      ]_vars

\* A claim that returns something while a terminal row has a retry_count
\* below the ceiling passed and the limit passed covers the whole table.
C3_Witness ==
    /\ op = "get_pending"
    /\ ret # <<>>
    /\ arg[1] >= Cardinality(followers)
    /\ \E row \in followers : Terminal(row) /\ row.retry_count < arg[2]

\* C4: get_pending(batch_size, max_retries) returns at most batch_size items,
\* each with status pending or rate_limited and retry_count < max_retries.
C4_ClaimFilter ==
    op = "get_pending" =>
        /\ Len(ret) <= arg[1]
        /\ \A i \in DOMAIN ret :
            /\ ret[i].lookup_status \in {PENDING, RATE_LIMITED}
            /\ ret[i].retry_count < arg[2]

\* A claim cut by its limit, on a table holding a rate_limited row whose
\* retry_count equals the ceiling passed.
C4_Witness ==
    /\ op = "get_pending"
    /\ Len(ret) = arg[1]
    /\ arg[1] >= 1
    /\ Cardinality({row \in followers : PendingWhere(row, arg[2])}) > arg[1]
    /\ \E row \in followers :
        row.lookup_status = RATE_LIMITED /\ row.retry_count = arg[2]

\* Whether the key (retry_count, username) of a sorts strictly before b's.
KeyBefore(a, b) ==
    \/ a.retry_count < b.retry_count
    \/ a.retry_count = b.retry_count /\ Rank(a.username) < Rank(b.username)

Min(a, b) == IF a <= b THEN a ELSE b

\* The rows a claim with ceiling m may return.
Eligible(table, m) ==
    {row \in table :
        row.lookup_status \in {PENDING, RATE_LIMITED} /\ row.retry_count < m}

\* C5: the list get_pending returns is in ascending (retry_count, username)
\* order and is the first batch_size eligible rows in that order: no
\* eligible row left out has a key before that of a returned one.
C5_ClaimOrdering ==
    op = "get_pending" =>
        /\ \A i, j \in DOMAIN ret : i < j => KeyBefore(ret[i], ret[j])
        /\ Len(ret) = Min(arg[1], Cardinality(Eligible(followers, arg[2])))
        /\ \A i \in DOMAIN ret :
            \E row \in Eligible(followers, arg[2]) :
                ret[i] = RowToFollower(row)
        /\ \A row \in Eligible(followers, arg[2]) :
            (\A i \in DOMAIN ret : ret[i].username # row.username) =>
                \A i \in DOMAIN ret : KeyBefore(ret[i], row)

\* The spec's example: retry_counts 2, 0, 1 on the second, first and third
\* username come back first (0), third (1), second (2).
C5_Witness ==
    /\ op = "get_pending"
    /\ Len(ret) = 3
    /\ <<ret[1].username, ret[2].username, ret[3].username>>
          = <<"alice", "carol", "bob">>
    /\ <<ret[1].retry_count, ret[2].retry_count, ret[3].retry_count>>
          = <<0, 1, 2>>

\* C6: import_from_export returns (imported, skipped) with imported + skipped
\* the length of the list; a username already stored or repeated in the list
\* is skipped, the table holds one row per username, and importing the list
\* just imported again, or any list of stored usernames, imports 0 and
\* leaves the number of rows.
C6_IdempotentImport ==
    [][op' = "import_from_export" =>
        /\ ret'[1] + ret'[2] = Len(arg')
        /\ ret'[1] = Cardinality(ListNames(arg') \ Usernames(followers))
        /\ Usernames(followers') = Usernames(followers) \cup ListNames(arg')
        /\ Cardinality(followers') = Cardinality(Usernames(followers'))
        /\ ListNames(arg') \subseteq Usernames(followers) =>
            ret'[1] = 0 /\ Cardinality(followers') = Cardinality(followers)
        /\ (op = "import_from_export" /\ arg = arg') =>
            ret'[1] = 0 /\ Cardinality(followers') = Cardinality(followers)
      ]_vars

\* An import of two different usernames, both stored already.
C6_Witness ==
    /\ op = "import_from_export"
    /\ Len(arg) = 2
    /\ arg[1].username # arg[2].username
    /\ ret = <<0, 2>>
    /\ Cardinality(followers) = 2

\* C7: import_from_export leaves every stored row as it is, and the rows it
\* adds have status pending, retry_count 0 and no metrics.
C7_ImportKeepsRows ==
    [][op' = "import_from_export" =>
        /\ followers \subseteq followers'
        /\ \A row \in followers' \ followers :
            /\ row.lookup_status = PENDING
            /\ row.retry_count = 0
            /\ row.follower_count = NoInt /\ row.following_count = NoInt
            /\ row.full_name = None
            /\ row.is_verified = NoInt /\ row.is_private = NoInt
            /\ row.lookup_source = None /\ row.error_message = None
      ]_vars

\* An import that names a stored row with a result in it (success, metrics,
\* retry_count above 0) and also adds a new row.
C7_Witness ==
    /\ op = "import_from_export"
    /\ ret = <<1, 1>>
    /\ \E row \in followers :
        /\ row.username \in ListNames(arg)
        /\ row.lookup_status = SUCCESS
        /\ row.follower_count # NoInt
        /\ row.retry_count > 0

(***************************************************************************)
(* Claims about the rate limiter                                           *)
(***************************************************************************)

\* The events of a window deque that are at most `window` seconds old at
\* time t (the ones _prune_old keeps).
WithinWindow(timestamps, t, window) ==
    SelectSeq(timestamps, LAMBDA x : x >= t - window)

DailyReached == Len(WithinWindow(daily_timestamps, now, DayWindow)) >= daily_cap

\* C9: when daily_cap or more recorded requests lie in the trailing 24 hours,
\* wait_before_request raises StopIteration, sleeps nothing, and changes no
\* counter and no window (the daily deque only loses its expired events).
C9_DailyHardStop ==
    [][(op' = "wait_before_request" /\ DailyReached) =>
        /\ ret' = <<"StopIteration", 0>>
        /\ now' = now
        /\ daily_timestamps' = WithinWindow(daily_timestamps, now, DayWindow)
        /\ UNCHANGED <<hourly_timestamps, session_count, since_long_pause,
                       next_long_pause_at, consecutive_rate_limits>>
      ]_vars

\* A hard-stop on the second day, with exactly daily_cap events in the
\* window.
C9_Witness ==
    /\ op = "wait_before_request"
    /\ ret = <<"StopIteration", 0>>
    /\ Len(daily_timestamps) = daily_cap
    /\ now >= DayWindow

C11_ThrottleFrame ==
    [][op' = "handle_rate_limit" =>
        /\ hourly_timestamps' = hourly_timestamps
        /\ daily_timestamps' = daily_timestamps
        /\ session_count' = session_count
        /\ since_long_pause' = since_long_pause
        /\ next_long_pause_at' = next_long_pause_at
        /\ consecutive_rate_limits' = consecutive_rate_limits + 1
        /\ now' >= now
      ]_vars

\* A second rate-limit signal in a row, on a limiter with recorded requests.
C11_Witness ==
    /\ op = "handle_rate_limit"
    /\ consecutive_rate_limits = 2
    /\ Len(hourly_timestamps) = hourly_cap
    /\ session_count = session_cap
    /\ since_long_pause > 0

\* C12: the sleep of a handle_rate_limit call is rate_limit_cooldown when the
\* call is the first one or follows a record_request, and twice the sleep of
\* the call before it when it follows another handle_rate_limit: base, 2 *
\* base, 4 * base for three calls in a row, and base again after a
\* record_request.
C12_ExponentialBackoff ==
    [][op' = "handle_rate_limit" =>
        /\ now' - now = (IF op = "handle_rate_limit"
                           THEN 2 * ret[2]
                           ELSE rate_limit_cooldown)
        /\ ret' = <<"backoff", now' - now>>
        /\ consecutive_rate_limits' = 3 => now' - now = 4 * rate_limit_cooldown
      ]_vars

\* Three signals in a row from the start (sleeping 1 + 2 + 4 times the base),
\* one recorded request, and a signal that sleeps the base again.
C12_Witness ==
    /\ op = "handle_rate_limit"
    /\ daily_timestamps = <<7 * rate_limit_cooldown>>
    /\ consecutive_rate_limits = 1
    /\ now = 8 * rate_limit_cooldown

HourlyReached ==
    Len(WithinWindow(hourly_timestamps, now, HourWindow)) >= hourly_cap

\* The five policies of wait_before_request in their order: the first whose
\* condition holds.
FirstPolicy ==
    IF DailyReached THEN "StopIteration"
    ELSE IF session_count >= session_cap THEN "session rest"
    ELSE IF HourlyReached THEN "hourly cap wait"
    ELSE IF since_long_pause >= next_long_pause_at THEN "long pause"
    ELSE "delay"

\* C13: every wait_before_request call does exactly one of hard-stop, session
\* rest, hourly wait, long pause and delay: the first, in that order, whose
\* condition (daily cap reached, session cap reached, hourly cap reached,
\* long-pause threshold reached, otherwise) holds.
C13_AdmitOrder ==
    [][op' = "wait_before_request" => ret'[1] = FirstPolicy]_vars

(***************************************************************************)
(* The lookup command (main.py lookup) and its two phases: the official    *)
(* Graph API phase (lookup_graph_api.py) and the scraping phase            *)
(* (lookup_instaloader.py).  One action is one step of the command between *)
(* two points at which the process can be interrupted or stopped.          *)
(***************************************************************************)

\* lookup_graph_api.py BATCH_SIZE; lookup_instaloader passes the same number.
BATCH_SIZE == 50
\* Config.max_retries, scaled down.
config_max_retries == 2

\* The counters of a phase are followed up to MaxCount and stay there.
MaxCount == 3
Inc(n) == IF n < MaxCount THEN n + 1 ELSE n

\* The number of times the process is stopped and run again.
MaxRestarts == 1

\* lookup --mode
Modes == {"graph-api", "instaloader", "auto"}

\* What the remote service holds for a username.
Profile(u) ==
    [followers |-> IF u = "alice" THEN 500 ELSE 10,
     followees |-> Rank(u),
     full_name |-> u,
     is_verified |-> "False",
     is_private |-> IF u = "bob" THEN "True" ELSE "False"]

\* The call made by a step: its name, the usernames it is about, and what it
\* gave as <<kind, number>> (as wait_before_request does).
Call(o, a, r) == op' = o /\ arg' = a /\ ret' = r
Names(list) == [i \in DOMAIN list |-> list[i].username]

\* CheckpointDB.get_stats: the keys it returns.
CountStatus(table, st) == Cardinality({row \in table : row.lookup_status = st})
get_stats(table) ==
    [total |-> Cardinality(table),
     pending |-> CountStatus(table, PENDING),
     success |-> CountStatus(table, SUCCESS),
     failed |-> CountStatus(table, FAILED),
     rate_limited |-> CountStatus(table, RATE_LIMITED),
     by_source |->
        [src \in {row.lookup_source : row \in {r \in table : r.lookup_status = SUCCESS}}
            |-> Cardinality({row \in table : /\ row.lookup_status = SUCCESS
                                               /\ row.lookup_source = src})]]

\* main._print_stats: how it ends on the dict it is given.
print_stats(stats) ==
    IF stats.total = 0 THEN "ok"
    ELSE IF "graph_api_miss" \in DOMAIN stats THEN "ok" ELSE "KeyError"

\* _batch_lookup: the request as a whole fails (RequestException, outer 429,
\* other HTTP status), every follower of the batch is marked rate limited.
BatchFailures == {"exception", "http_429", "http_error"}
\* Mutant: a failed batch counted as an attempt of each of its followers.
BatchFailed_Counted(f, kind) ==
    [f EXCEPT !.lookup_status = RATE_LIMITED,
              !.error_message = "Batch request error",
              !.retry_count = @ + 1]

BatchFailed(f, kind) ==
    [f EXCEPT !.lookup_status = RATE_LIMITED,
              !.error_message =
                  CASE kind = "exception" -> "Batch request error"
                    [] kind = "http_429" -> "Batch: 429 rate limited"
                    [] kind = "http_error" -> "Batch: HTTP"]

\* _parse_sub_response on the kinds of sub-response: code 200 with the
\* business_discovery data, code 200 without it, code 429, an error with code
\* 4 or 32, any other error.
SubKinds == {"ok", "ok_empty", "429", "limit", "miss"}
parse_sub_response(f, kind) ==
    CASE kind = "ok" ->
            [f EXCEPT !.follower_count = Profile(f.username).followers,
                      !.following_count = Profile(f.username).followees,
                      !.full_name = Profile(f.username).full_name,
                      !.is_verified = None, !.is_private = "False",
                      !.lookup_status = SUCCESS, !.lookup_source = "graph_api",
                      !.error_message = None]
      [] kind = "ok_empty" ->
            [f EXCEPT !.follower_count = NoInt, !.following_count = NoInt,
                      !.full_name = None,
                      !.is_verified = None, !.is_private = "False",
                      !.lookup_status = SUCCESS, !.lookup_source = "graph_api",
                      !.error_message = None]
      [] kind = "429" ->
            [f EXCEPT !.lookup_status = RATE_LIMITED,
                      !.error_message = "429 rate limited"]
      [] kind = "limit" ->
            [f EXCEPT !.lookup_status = RATE_LIMITED,
                      !.error_message = "Rate limit"]
      [] kind = "miss" ->
            [f EXCEPT !.lookup_status = GRAPH_API_MISS,
                      !.error_message = "Graph API"]

\* lookup_graph_api: the backoff after a batch with a rate-limited follower.
GraphBackoff(consecutive) == 120 * Pow2(consecutive - 1)

\* The usage percentages tried (NoInt: no usage header), and _delay_from_usage.
UsageLevels == {NoInt, 0, 95}
delay_from_usage(usage) ==
    IF usage = NoInt THEN 10
    ELSE IF usage >= 95 THEN 300
    ELSE IF usage >= 80 THEN 60
    ELSE IF usage >= 60 THEN 20
    ELSE IF usage >= 40 THEN 5
    ELSE 1

\* _lookup_single: what Profile.from_username does, and the Follower returned.
\* The three outcomes of Aborts raise InstaloaderAbort.  The assignments from
\* the profile are inside the try: "unexpected_partial" is an exception
\* raised by a read of the profile after follower_count has been assigned.
Aborts == {"login_required", "checkpoint", "http_400_403"}
Returns ==
    {"ok", "not_exists", "too_many_requests", "connection_error", "unexpected",
     "unexpected_partial"}
lookup_single(f, kind) ==
    CASE kind = "ok" ->
            [f EXCEPT !.follower_count = Profile(f.username).followers,
                      !.following_count = Profile(f.username).followees,
                      !.full_name = Profile(f.username).full_name,
                      !.is_verified = Profile(f.username).is_verified,
                      !.is_private = Profile(f.username).is_private,
                      !.lookup_status = SUCCESS, !.lookup_source = "instaloader",
                      !.error_message = None]
      [] kind = "not_exists" ->
            [f EXCEPT !.lookup_status = FAILED,
                      !.error_message = "Profile does not exist",
                      !.retry_count = 999]
      [] kind = "too_many_requests" ->
            [f EXCEPT !.lookup_status = RATE_LIMITED,
                      !.error_message = "429 Too Many Requests"]
      [] kind = "connection_error" ->
            [f EXCEPT !.lookup_status = RATE_LIMITED,
                      !.error_message = "Connection error",
                      !.retry_count = f.retry_count + 1]
      [] kind = "unexpected" ->
            [f EXCEPT !.lookup_status = FAILED,
                      !.error_message = "Unexpected error",
                      !.retry_count = f.retry_count + 1]
      [] kind = "unexpected_partial" ->
            [f EXCEPT !.follower_count = Profile(f.username).followers,
                      !.lookup_status = FAILED,
                      !.error_message = "Unexpected error",
                      !.retry_count = f.retry_count + 1]

\* The two sources of the end-to-end scenario: A resolves alice, soft-misses
\* bob and throttles carol; B resolves bob and finds that carol does not
\* exist.
ScriptA(u) ==
    CASE u = "alice" -> "ok" [] u = "bob" -> "miss" [] u = "carol" -> "429"
ScriptB(u) ==
    CASE u = "bob" -> "ok" [] u = "carol" -> "not_exists" [] OTHER -> None

\* The steps inside the try block of lookup_instaloader.
InstaLoop ==
    {"insta_claim", "insta_wait", "insta_lookup", "insta_write",
     "insta_record", "insta_backoff"}
Running ==
    {"start", "graph_claim", "graph_lookup", "graph_write", "graph_sleep",
     "insta_check", "final"} \cup InstaLoop

\* RateLimiter(...) constructed, and the limiter gone with its process.
NewLimiter ==
    /\ now' = 0
    /\ hourly_timestamps' = <<>>
    /\ daily_timestamps' = <<>>
    /\ session_count' = 0
    /\ since_long_pause' = 0
    /\ next_long_pause_at' \in long_pause_interval_min..long_pause_interval_max
    /\ consecutive_rate_limits' = 0
DropLimiter ==
    /\ now' = 0
    /\ hourly_timestamps' = <<>>
    /\ daily_timestamps' = <<>>
    /\ session_count' = 0
    /\ since_long_pause' = 0
    /\ next_long_pause_at' = 0
    /\ consecutive_rate_limits' = 0

\* main.lookup up to the first phase.
RunStart ==
    /\ pc = "start"
    /\ Call("lookup", <<mode>>, <<"started", 0>>)
    /\ IF get_stats(followers).total = 0
       THEN pc' = "done" /\ exit' = "ok"
       ELSE /\ pc' = IF mode \in {"graph-api", "auto"} THEN "graph_claim"
                     ELSE "insta_check"
            /\ exit' = exit
    /\ on_script' = (on_script /\ mode = "auto")
    /\ UNCHANGED <<restarts, followers, batch, limiterVars, mode, result,
                   batch_had_rate_limit, graph_consecutive, counterVars,
                   stop_reason, answered, resent>>

\* lookup_graph_api: get_pending at the head of the loop; on an empty batch
\* the phase returns and main.lookup goes on.
GraphClaim ==
    /\ pc = "graph_claim"
    /\ LET claimed == get_pending(followers, BATCH_SIZE, config_max_retries) IN
        /\ Call("get_pending", <<>>, <<"claimed", Len(claimed)>>)
        /\ batch' = claimed
        /\ pc' = IF claimed # <<>> THEN "graph_lookup"
                 ELSE IF mode = "auto" THEN "insta_check" ELSE "final"
    /\ UNCHANGED <<restarts, followers, limiterVars, mode, result,
                   batch_had_rate_limit, graph_consecutive, counterVars,
                   stop_reason, exit, historyVars>>

\* _batch_lookup: one batch request for the claimed followers.  A body that
\* is not the list of sub-responses raises out of the phase.
GraphBatchLookup ==
    /\ pc = "graph_lookup"
    /\ \/ \E kind \in BatchFailures :
            /\ batch' = [i \in DOMAIN batch |-> BatchFailed(batch[i], kind)]
            /\ Call("_batch_lookup", Names(batch), <<kind, 0>>)
            /\ pc' = "graph_write"
            /\ exit' = exit
            /\ answered' = answered
            /\ on_script' = FALSE
       \/ \E subs \in [DOMAIN batch -> SubKinds] :
            /\ batch' = [i \in DOMAIN batch |->
                            parse_sub_response(batch[i], subs[i])]
            /\ Call("_batch_lookup", Names(batch), <<"sub-responses", Len(subs)>>)
            /\ pc' = "graph_write"
            /\ exit' = exit
            /\ answered' = answered \cup
                    {batch[i].username : i \in {j \in DOMAIN batch :
                                                 subs[j] \in {"ok", "ok_empty"}}}
            /\ on_script' = (on_script /\ \A i \in DOMAIN batch :
                                            subs[i] = ScriptA(batch[i].username))
       \/ /\ batch' = <<>>
          /\ Call("_batch_lookup", Names(batch), <<"malformed", 0>>)
          /\ pc' = "done"
          /\ exit' = "exception"
          /\ answered' = answered
          /\ on_script' = FALSE
    /\ resent' = (resent \/ \E i \in DOMAIN batch : batch[i].username \in answered)
    /\ batch_had_rate_limit' = FALSE
    /\ UNCHANGED <<restarts, followers, limiterVars, mode, result,
                   graph_consecutive, counterVars, stop_reason>>

\* lookup_graph_api: update_result and the counters, for one follower of the
\* results.
GraphWrite ==
    /\ pc = "graph_write"
    /\ batch # <<>>
    /\ LET follower == Head(batch) IN
        /\ followers' = update_result(followers, follower)
        /\ Call("update_result", <<follower.username>>, <<"written", 1>>)
        /\ processed' = Inc(processed)
        /\ success_count' = IF follower.lookup_status = SUCCESS
                            THEN Inc(success_count) ELSE success_count
        /\ rate_limit_count' = IF follower.lookup_status = RATE_LIMITED
                               THEN Inc(rate_limit_count) ELSE rate_limit_count
        /\ skip_count' = IF follower.lookup_status \notin {SUCCESS, RATE_LIMITED}
                         THEN Inc(skip_count) ELSE skip_count
        /\ batch_had_rate_limit' =
                (batch_had_rate_limit \/ follower.lookup_status = RATE_LIMITED)
    /\ batch' = Tail(batch)
    /\ pc' = IF Tail(batch) = <<>> THEN "graph_sleep" ELSE "graph_write"
    /\ UNCHANGED <<restarts, limiterVars, mode, result, graph_consecutive,
                   fail_count, stop_reason, exit, historyVars>>

\* Mutant: the phase given up (break) after a batch that was rate limited.
GraphSleep_GivesUp ==
    /\ pc = "graph_sleep"
    /\ IF batch_had_rate_limit
       THEN /\ graph_consecutive' = Inc(graph_consecutive)
            /\ Call("sleep", <<>>,
                    <<"backoff", GraphBackoff(Inc(graph_consecutive))>>)
            /\ pc' = IF mode = "auto" THEN "insta_check" ELSE "final"
       ELSE /\ graph_consecutive' = 0
            /\ \E usage \in UsageLevels :
                Call("sleep", <<>>, <<"delay", delay_from_usage(usage)>>)
            /\ pc' = "graph_claim"
    /\ UNCHANGED <<restarts, followers, batch, limiterVars, mode, result,
                   batch_had_rate_limit, counterVars, stop_reason, exit,
                   historyVars>>

\* lookup_graph_api: the end of an iteration, backoff or delay.
GraphSleep ==
    /\ pc = "graph_sleep"
    /\ IF batch_had_rate_limit
       THEN /\ graph_consecutive' = Inc(graph_consecutive)
            /\ Call("sleep", <<>>,
                    <<"backoff", GraphBackoff(Inc(graph_consecutive))>>)
       ELSE /\ graph_consecutive' = 0
            /\ \E usage \in UsageLevels :
                Call("sleep", <<>>, <<"delay", delay_from_usage(usage)>>)
    /\ pc' = "graph_claim"
    /\ UNCHANGED <<restarts, followers, batch, limiterVars, mode, result,
                   batch_had_rate_limit, counterVars, stop_reason, exit,
                   historyVars>>

\* main.lookup between the phases and lookup_instaloader up to its loop:
\* nothing pending or rate limited ends the command; a missing session file
\* ends the phase; otherwise the limiter and the counters are set up.
InstaStart ==
    /\ pc = "insta_check"
    /\ IF get_stats(followers).pending + get_stats(followers).rate_limited = 0
       THEN /\ pc' = "done"
            /\ exit' = "ok"
            /\ Call("lookup_instaloader", <<>>, <<"nothing pending", 0>>)
            /\ UNCHANGED <<limiterVars, counterVars, stop_reason, on_script>>
       ELSE \/ /\ pc' = "final"
               /\ exit' = exit
               /\ Call("lookup_instaloader", <<>>, <<"no session", 0>>)
               /\ stop_reason' = "no session"
               /\ on_script' = FALSE
               /\ UNCHANGED <<limiterVars, counterVars>>
            \/ /\ pc' = "insta_claim"
               /\ exit' = exit
               /\ Call("lookup_instaloader", <<>>, <<"started", 0>>)
               /\ NewLimiter
               /\ processed' = 0
               /\ success_count' = 0
               /\ fail_count' = 0
               /\ UNCHANGED <<skip_count, rate_limit_count, stop_reason,
                              on_script>>
    /\ UNCHANGED <<restarts, followers, batch, mode, result,
                   batch_had_rate_limit, graph_consecutive, answered, resent>>

\* lookup_instaloader: get_pending at the head of the loop.
InstaClaim ==
    /\ pc = "insta_claim"
    /\ LET claimed == get_pending(followers, BATCH_SIZE, config_max_retries) IN
        /\ Call("get_pending", <<>>, <<"claimed", Len(claimed)>>)
        /\ batch' = claimed
        /\ pc' = IF claimed # <<>> THEN "insta_wait" ELSE "final"
        /\ stop_reason' = IF claimed # <<>> THEN stop_reason ELSE "completed"
    /\ UNCHANGED <<restarts, followers, limiterVars, mode, result,
                   batch_had_rate_limit, graph_consecutive, counterVars, exit,
                   historyVars>>

\* Mutant: the loop going on to the lookup after a StopIteration.
InstaWait_GoesOn ==
    /\ pc = "insta_wait"
    /\ wait_before_request
    /\ op' = "wait_before_request"
    /\ arg' = <<>>
    /\ pc' = "insta_lookup"
    /\ UNCHANGED <<restarts, followers, batch, mode, result,
                   batch_had_rate_limit, graph_consecutive, counterVars,
                   stop_reason, exit, historyVars>>

\* limiter.wait_before_request() for the next follower of the batch.
InstaWait ==
    /\ pc = "insta_wait"
    /\ wait_before_request
    /\ op' = "wait_before_request"
    /\ arg' = <<>>
    /\ IF ret'[1] = "StopIteration"
       THEN pc' = "final" /\ stop_reason' = "daily_cap" /\ batch' = <<>>
       ELSE pc' = "insta_lookup" /\ stop_reason' = stop_reason /\ batch' = batch
    /\ UNCHANGED <<restarts, followers, mode, result, batch_had_rate_limit,
                   graph_consecutive, counterVars, exit, historyVars>>

\* _lookup_single for the next follower of the batch.
InstaLookup ==
    /\ pc = "insta_lookup"
    /\ LET follower == Head(batch) IN
        /\ \/ \E kind \in Aborts :
                /\ Call("_lookup_single", <<follower.username>>, <<kind, 0>>)
                /\ pc' = "final"
                /\ stop_reason' = kind
                /\ result' = <<>>
                /\ batch' = <<>>
                /\ answered' = answered
                /\ on_script' = FALSE
           \/ \E kind \in Returns :
                /\ Call("_lookup_single", <<follower.username>>, <<kind, 0>>)
                /\ pc' = "insta_write"
                /\ stop_reason' = stop_reason
                /\ result' = <<lookup_single(follower, kind)>>
                /\ batch' = batch
                /\ answered' = IF kind = "ok"
                               THEN answered \cup {follower.username}
                               ELSE answered
                /\ on_script' = (on_script /\ kind = ScriptB(follower.username))
        /\ resent' = (resent \/ follower.username \in answered)
    /\ UNCHANGED <<restarts, followers, limiterVars, mode,
                   batch_had_rate_limit, graph_consecutive, counterVars,
                   exit>>

\* db.update_result(result)
InstaWrite ==
    /\ pc = "insta_write"
    /\ followers' = update_result(followers, result[1])
    /\ Call("update_result", <<result[1].username>>, <<"written", 1>>)
    /\ pc' = "insta_record"
    /\ UNCHANGED <<restarts, batch, limiterVars, mode, result,
                   batch_had_rate_limit, graph_consecutive, counterVars,
                   stop_reason, exit, historyVars>>

\* The next follower of the batch, or the next batch.
NextFollower ==
    /\ batch' = Tail(batch)
    /\ result' = <<>>
    /\ pc' = IF Tail(batch) = <<>> THEN "insta_claim" ELSE "insta_wait"

\* limiter.record_request() and the counters.
InstaRecord ==
    /\ pc = "insta_record"
    /\ record_request
    /\ Call("record_request", <<>>, <<"recorded", 1>>)
    /\ processed' = Inc(processed)
    /\ success_count' = IF result[1].lookup_status = SUCCESS
                        THEN Inc(success_count) ELSE success_count
    /\ fail_count' = IF result[1].lookup_status \notin {SUCCESS, RATE_LIMITED}
                     THEN Inc(fail_count) ELSE fail_count
    /\ IF result[1].lookup_status = RATE_LIMITED
       THEN pc' = "insta_backoff" /\ UNCHANGED <<batch, result>>
       ELSE NextFollower
    /\ UNCHANGED <<restarts, followers, mode, batch_had_rate_limit,
                   graph_consecutive, skip_count, rate_limit_count,
                   stop_reason, exit, historyVars>>

\* limiter.handle_rate_limit() after a rate-limited result.
InstaBackoff ==
    /\ pc = "insta_backoff"
    /\ Explored(now + Backoff(consecutive_rate_limits + 1))
    /\ handle_rate_limit
    /\ Call("handle_rate_limit", <<>>,
            <<"backoff", Backoff(consecutive_rate_limits + 1)>>)
    /\ NextFollower
    /\ UNCHANGED <<restarts, followers, mode, batch_had_rate_limit,
                   graph_consecutive, counterVars, stop_reason, exit,
                   historyVars>>

\* main.lookup: the final stats and their report.
FinalStats ==
    /\ pc = "final"
    /\ Call("get_stats", <<>>, <<"total", get_stats(followers).total>>)
    /\ pc' = "done"
    /\ exit' = print_stats(get_stats(followers))
    /\ UNCHANGED <<restarts, followers, batch, limiterVars, mode, result,
                   batch_had_rate_limit, graph_consecutive, counterVars,
                   stop_reason, historyVars>>

\* Mutant: a KeyboardInterrupt that no phase catches.
Interrupt_Uncaught ==
    /\ pc \in Running
    /\ Call("KeyboardInterrupt", <<>>, <<"interrupted", 0>>)
    /\ pc' = "done"
    /\ exit' = "KeyboardInterrupt"
    /\ batch' = <<>>
    /\ result' = <<>>
    /\ on_script' = FALSE
    /\ UNCHANGED <<restarts, followers, limiterVars, mode,
                   batch_had_rate_limit, graph_consecutive, counterVars,
                   stop_reason, answered, resent>>

\* KeyboardInterrupt: caught inside the loop of lookup_instaloader, which
\* then returns with stop_reason "completed"; anywhere else it ends the
\* command.
Interrupt ==
    /\ pc \in Running
    /\ Call("KeyboardInterrupt", <<>>, <<"interrupted", 0>>)
    /\ IF pc \in InstaLoop
       THEN pc' = "final" /\ stop_reason' = "completed" /\ exit' = exit
       ELSE pc' = "done" /\ stop_reason' = stop_reason
                /\ exit' = "KeyboardInterrupt"
    /\ batch' = <<>>
    /\ result' = <<>>
    /\ on_script' = FALSE
    /\ UNCHANGED <<restarts, followers, limiterVars, mode,
                   batch_had_rate_limit, graph_consecutive, counterVars,
                   answered, resent>>

\* The process is stopped at any point, or has ended, and the command is run
\* again: the table is what was committed, everything in memory is new.
Restart ==
    /\ pc # "start"
    /\ restarts < MaxRestarts
    /\ restarts' = restarts + 1
    /\ Call("restart", <<>>, <<"stopped", 0>>)
    /\ pc' = "start"
    /\ mode' \in Modes
    /\ batch' = <<>>
    /\ result' = <<>>
    /\ batch_had_rate_limit' = FALSE
    /\ graph_consecutive' = 0
    /\ processed' = 0
    /\ success_count' = 0
    /\ skip_count' = 0
    /\ fail_count' = 0
    /\ rate_limit_count' = 0
    /\ stop_reason' = None
    /\ exit' = "running"
    /\ DropLimiter
    /\ on_script' = FALSE
    /\ UNCHANGED <<followers, answered, resent>>

\* The export of the usernames S, and the table after parse has imported it.
RECURSIVE ExportOf(_)
ExportOf(S) ==
    IF S = {} THEN <<>>
    ELSE LET u == CHOOSE x \in S : \A y \in S : Rank(x) <= Rank(y)
         IN  <<Follower(u, FollowedAt(u))>> \o ExportOf(S \ {u})
SeededTable(S) == import_from_export({}, ExportOf(S)).table

\* main.parse, run between two lookup commands on the export the table was
\* seeded from.
RunParse ==
    /\ pc = "start"
    /\ LET list == ExportOf({row.username : row \in followers})
           r == import_from_export(followers, list)
       IN  /\ followers' = r.table
           /\ Call("import_from_export", Names(list), <<"imported", r.imported>>)
    /\ UNCHANGED <<batch, limiterVars, runVars>>

\* The command started in any mode on a table of S, with nothing in memory.
InitOn(S) ==
    /\ followers = SeededTable(S)
    /\ op = "none"
    /\ arg = <<>>
    /\ ret = <<"none", 0>>
    /\ batch = <<>>
    /\ NoLimiter
    /\ pc = "start"
    /\ mode \in Modes
    /\ result = <<>>
    /\ batch_had_rate_limit = FALSE
    /\ graph_consecutive = 0
    /\ processed = 0
    /\ success_count = 0
    /\ skip_count = 0
    /\ fail_count = 0
    /\ rate_limit_count = 0
    /\ stop_reason = None
    /\ exit = "running"
    /\ restarts = 0
    /\ answered = {}
    /\ resent = FALSE

\* Runs over the table of alice and bob, the process being stopped and the
\* command run again up to MaxRestarts times.
Init == InitOn(StoreIdentities) /\ on_script = FALSE

\* One run of the command.
NextRun ==
    \/ RunParse
    \/ RunStart
    \/ GraphClaim
    \/ GraphBatchLookup
    \/ GraphWrite
    \/ GraphSleep
    \/ InstaStart
    \/ InstaClaim
    \/ InstaWait
    \/ InstaLookup
    \/ InstaWrite
    \/ InstaRecord
    \/ InstaBackoff
    \/ FinalStats
    \/ Interrupt

Next == NextRun \/ Restart

Spec == Init /\ [][Next]_vars

\* One run over the table of the end-to-end scenario (alice, bob, carol);
\* the process, while it has a step to take, takes one.
InitRun == InitOn(Identities) /\ on_script = TRUE

SpecRun == InitRun /\ [][NextRun]_vars /\ WF_vars(NextRun)

(***************************************************************************)
(* Claims about the lookup command                                         *)
(***************************************************************************)

RowOf(table, u) == CHOOSE row \in table : row.username = u
Claimable(row) ==
    /\ row.lookup_status \in {PENDING, RATE_LIMITED}
    /\ row.retry_count < config_max_retries

\* C1 (as the claim states it): the auto-mode run over alice, bob and carol,
\* in which source A resolves alice, soft-misses bob and throttles carol and
\* source B resolves bob and finds carol nonexistent, eventually ends with the
\* stats total=3, success=2 (one by graph_api, one by instaloader), failed=1,
\* pending=0.  on_script is true as long as the run has been that run.
C1_EndToEnd ==
    <>(\/ ~on_script
       \/ /\ pc = "done"
          /\ get_stats(followers).total = 3
          /\ get_stats(followers).success = 2
          /\ DOMAIN get_stats(followers).by_source = {"graph_api", "instaloader"}
          /\ get_stats(followers).by_source["graph_api"] = 1
          /\ get_stats(followers).by_source["instaloader"] = 1
          /\ get_stats(followers).failed = 1
          /\ get_stats(followers).pending = 0)

\* C2 (as the claim states it): a row the Graph API phase wrote back as
\* graph_api_miss with retry_count below max_retries is returned by the
\* get_pending of the scraping phase.
C2_SoftMissRequeued ==
    [][(pc = "insta_claim" /\ op' = "get_pending") =>
        \A row \in followers :
            (/\ row.lookup_status = GRAPH_API_MISS
             /\ row.retry_count < config_max_retries)
                => row.username \in ListNames(batch')
      ]_vars

\* A row as import leaves it, or as one whole update_result with the result
\* of a lookup leaves it.
CompleteRow(row) ==
    /\ row.followed_at = FollowedAt(row.username)
    /\ \/ row = InsertedRow(Follower(row.username, FollowedAt(row.username)))
       \/ /\ row.lookup_status = SUCCESS
          /\ row.error_message = None
          /\ \/ /\ row.lookup_source = "graph_api"
                /\ row.is_verified = NoInt
                /\ row.is_private = 0
                /\ \/ /\ row.follower_count = Profile(row.username).followers
                      /\ row.following_count = Profile(row.username).followees
                      /\ row.full_name = Profile(row.username).full_name
                   \/ /\ row.follower_count = NoInt
                      /\ row.following_count = NoInt
                      /\ row.full_name = None
             \/ /\ row.lookup_source = "instaloader"
                /\ row.is_verified = BoolToInt(Profile(row.username).is_verified)
                /\ row.is_private = BoolToInt(Profile(row.username).is_private)
                /\ row.follower_count = Profile(row.username).followers
                /\ row.following_count = Profile(row.username).followees
                /\ row.full_name = Profile(row.username).full_name
       \/ /\ row.lookup_status \in {RATE_LIMITED, GRAPH_API_MISS, FAILED}
          /\ row.error_message # None
          /\ row.lookup_source = None
          /\ \/ row.follower_count = NoInt
             \/ /\ row.lookup_status = FAILED
                /\ row.follower_count = Profile(row.username).followers
          /\ row.following_count = NoInt
          /\ row.full_name = None
          /\ row.is_verified = NoInt
          /\ row.is_private = NoInt

\* C8 (amended): when the process is stopped at any point and the command is
\* run again, the table is as it was (a result not written before the stop
\* leaves its row unchanged); every stored row is the imported row or the
\* row of one whole update_result; every get_pending of a phase returns
\* exactly the pending and rate_limited rows with retry_count below
\* max_retries, each once; and no lookup is sent for a username whose stored
\* row is success or failed.
C8_Resume ==
    [][/\ \A row \in followers' : CompleteRow(row)
       /\ op' = "restart" => followers' = followers
       /\ op' = "get_pending" =>
            /\ ListNames(batch') =
                    {row.username : row \in {r \in followers : Claimable(r)}}
            /\ Len(batch') = Cardinality(ListNames(batch'))
       /\ op' = "_batch_lookup" =>
            /\ followers' = followers
            /\ \A i \in DOMAIN batch :
                    ~Terminal(RowOf(followers, batch[i].username))
       /\ op' = "_lookup_single" =>
            /\ followers' = followers
            /\ ~Terminal(RowOf(followers, Head(batch).username))
      ]_vars

\* After a restart the scraping phase looks up a username again whose
\* profile an earlier lookup had returned, another row being a success.
C8_Witness ==
    /\ restarts >= 1
    /\ op = "_lookup_single"
    /\ resent
    /\ \E row \in followers : row.lookup_status = SUCCESS

\* C8 (as the claim states it): each item is processed exactly once, no
\* lookup is sent for a username for which a lookup has already completed
\* (returned the profile).
C8_ExactlyOnce == ~resent


\* C14: no follower is looked up forever: whatever the sources answer, the
\* loops of both phases come to an empty get_pending and the command ends.
\* (An interrupt or an abort ends the command as well, so a run that never
\* ends has neither.)
C14_NoRetryForever == <>(pc = "done")

\* C15: a row that is a success is never written again, by either phase or by
\* the import: no update_result names it, and the row (status, source,
\* metrics and all) is in the table for ever after.
C15_ResolvedFixed ==
    [][\A row \in followers :
          row.lookup_status = SUCCESS =>
            /\ row \in followers'
            /\ op' = "update_result" => arg' # <<row.username>>
      ]_vars

\* In a second run of the command the scraping phase has written a success
\* of its own next to a success of the Graph API phase.
C15_Witness ==
    /\ restarts >= 1
    /\ op = "update_result"
    /\ pc = "insta_record"
    /\ \E a, b \in followers :
          /\ a.lookup_status = SUCCESS /\ a.lookup_source = "graph_api"
          /\ b.lookup_status = SUCCESS /\ b.lookup_source = "instaloader"
          /\ arg = <<b.username>>

\* C16: the stored retry_count of a username never decreases, whatever
\* sequence of imports, Graph API writes and scraping writes is run.
C16_AttemptsMonotone ==
    [][\A row \in followers :
          \E next \in followers' :
            /\ next.username = row.username
            /\ next.retry_count >= row.retry_count
      ]_vars

\* The export is imported again over a row whose retry_count a lookup has
\* raised.
C16_Witness ==
    /\ op = "import_from_export"
    /\ restarts >= 1
    /\ \E row \in followers :
          row.retry_count > 0 /\ row.retry_count < config_max_retries

\* C17: a KeyboardInterrupt at any point of the loop of the scraping phase
\* (get_pending, the limiter's wait, the lookup, between update_result and the
\* bookkeeping, the backoff) ends the phase without an exception: it returns
\* stop_reason "completed" with processed, success and failed as counted so
\* far, the table is not touched, and the row of the follower in hand is
\* either the row as it was claimed or the whole row of its result.
C17_InterruptInLoop ==
    [][(op' = "KeyboardInterrupt" /\ pc \in InstaLoop) =>
        /\ pc' = "final"
        /\ exit' = "running"
        /\ stop_reason' = "completed"
        /\ processed' = processed
        /\ success_count' = success_count
        /\ fail_count' = fail_count
        /\ followers' = followers
        /\ \A row \in followers' : CompleteRow(row)
        /\ pc \in {"insta_wait", "insta_lookup", "insta_write"} =>
              RowToFollower(RowOf(followers', Head(batch).username))
                  = Head(batch)
        /\ pc \in {"insta_record", "insta_backoff"} =>
              RowToFollower(RowOf(followers', result[1].username)) = result[1]
      ]_vars

\* An interrupt between update_result and the bookkeeping of the second
\* follower: two rows written, one counted.
C17_Witness ==
    /\ op = "KeyboardInterrupt"
    /\ pc = "final"
    /\ stop_reason = "completed"
    /\ restarts = 0
    /\ processed = 1
    /\ Cardinality({row \in followers : row.lookup_status # PENDING}) = 2

\* A phase-fatal signal of the scraping phase: an abort of the lookup, or the
\* limiter's hard-stop.
FatalSignal ==
    /\ pc \in {"insta_wait", "insta_lookup"}
    /\ \/ op' = "_lookup_single" /\ ret'[1] \in Aborts
       \/ op' = "wait_before_request" /\ ret'[1] = "StopIteration"

\* C18: on a login-required, checkpoint/challenge or HTTP 400/403 abort, or
\* on the daily hard-stop, the scraping phase ends at once: the table is as
\* it was, the row of the follower in hand is the row as it was claimed, it
\* and the rest of the claimed batch are still claimable, nothing is counted,
\* and from there to the end of the command no lookup is sent and no row is
\* written.
C18_PhaseFatal ==
    [][/\ FatalSignal =>
            /\ pc' = "final"
            /\ stop_reason' = (IF op' = "_lookup_single" THEN ret'[1]
                                                         ELSE "daily_cap")
            /\ followers' = followers
            /\ RowToFollower(RowOf(followers', Head(batch).username))
                    = Head(batch)
            /\ \A i \in DOMAIN batch :
                    Claimable(RowOf(followers', batch[i].username))
            /\ UNCHANGED <<processed, success_count, fail_count>>
       /\ pc = "final" =>
            /\ followers' = followers
            /\ op' \in {"get_stats", "KeyboardInterrupt", "restart"}
       /\ pc = "done" => followers' = followers /\ op' = "restart"
      ]_vars

\* The daily hard-stop after daily_cap recorded requests, a claimed follower
\* left to be claimed again.
C18_Witness ==
    /\ pc = "final"
    /\ op = "wait_before_request"
    /\ ret[1] = "StopIteration"
    /\ stop_reason = "daily_cap"
    /\ processed = daily_cap
    /\ \E row \in followers : Claimable(row)

\* C19: a follower the Graph API phase classifies as a miss (not
\* discoverable, or any error that is not a rate limit) is written with
\* status graph_api_miss, an error message, and a retry_count one greater
\* than the stored one.
C19_SoftMissCounted ==
    [][(pc = "graph_write" /\ op' = "update_result"
          /\ Head(batch).lookup_status = GRAPH_API_MISS) =>
        LET before == RowOf(followers, Head(batch).username)
            after == RowOf(followers', Head(batch).username)
        IN  /\ after.lookup_status = GRAPH_API_MISS
            /\ after.error_message # None
            /\ after.retry_count = before.retry_count + 1
      ]_vars

\* The error messages of the rate-limit signals of the Graph API phase:
\* sub-response 429, error code 4 or 32, whole-batch 429, transport exception.
ThrottleMessages ==
    {"429 rate limited", "Rate limit", "Batch: 429 rate limited",
     "Batch request error"}

\* C20: on a rate-limit signal of the Graph API (sub-response 429, error code
\* 4 or 32, whole-batch 429) or a transport exception, every follower it
\* concerns is written rate_limited with the error message and with its
\* retry_count and metrics as they were stored, so that get_pending returns
\* it again with the same retry_count.
C20_ThrottleFrame ==
    [][/\ (op' = "_batch_lookup" /\ ret'[1] \in {"exception", "http_429"}) =>
            \A i \in DOMAIN batch :
                /\ batch'[i].lookup_status = RATE_LIMITED
                /\ batch'[i].error_message \in ThrottleMessages
                /\ batch'[i].retry_count = batch[i].retry_count
       /\ (pc = "graph_write" /\ op' = "update_result"
              /\ Head(batch).error_message \in ThrottleMessages) =>
            LET before == RowOf(followers, Head(batch).username)
                after == RowOf(followers', Head(batch).username)
            IN  /\ after = [before EXCEPT
                                !.lookup_status = RATE_LIMITED,
                                !.error_message = Head(batch).error_message]
                /\ Claimable(after)
      ]_vars

\* A follower written rate_limited by a sub-response 429 is in the next
\* get_pending of the phase, with retry_count 0.
C20_Witness ==
    /\ restarts = 0
    /\ op = "get_pending"
    /\ pc = "graph_lookup"
    /\ \E i \in DOMAIN batch :
          /\ batch[i].lookup_status = RATE_LIMITED
          /\ batch[i].error_message = "429 rate limited"
          /\ batch[i].retry_count = 0
          /\ RowOf(followers, batch[i].username).follower_count = NoInt

\* C21: a follower on which the scraping phase met an unexpected error is
\* written with retry_count one greater and is not terminal: as long as its
\* retry_count is below max_retries, every later get_pending of the scraping
\* phase returns it, so that it is looked up again.
C21_UnexpectedRetried ==
    [][/\ (pc = "insta_write" /\ op' = "update_result"
              /\ result[1].error_message = "Unexpected error") =>
            RowOf(followers', result[1].username).retry_count
                = RowOf(followers, result[1].username).retry_count + 1
       /\ (pc = "insta_claim" /\ op' = "get_pending") =>
            \A row \in followers :
                (row.error_message = "Unexpected error"
                    /\ row.retry_count < config_max_retries) =>
                        row.username \in ListNames(batch')
      ]_vars

\* C22 (as the claim states it): when the scraping phase finds that a profile
\* does not exist, the row is written failed with retry_count set to the
\* retry ceiling, max_retries.
C22_ForcedToCeiling ==
    [][(pc = "insta_write" /\ op' = "update_result"
          /\ result[1].error_message = "Profile does not exist") =>
        LET after == RowOf(followers', result[1].username)
        IN  /\ after.lookup_status = FAILED
            /\ after.retry_count = config_max_retries
      ]_vars

\* C22 (amended): when the scraping phase finds that a profile does not
\* exist, the row is written failed with retry_count 999; from then on the
\* row stays as it is, no lookup is sent for the username, and get_pending
\* does not return it whatever max_retries it is called with (below, at or
\* above 999), its status being failed.
C22_NotExistsTerminal ==
    [][/\ (pc = "insta_write" /\ op' = "update_result"
              /\ result[1].error_message = "Profile does not exist") =>
            LET after == RowOf(followers', result[1].username)
            IN  /\ after.lookup_status = FAILED
                /\ after.retry_count = 999
       /\ \A row \in followers :
            row.error_message = "Profile does not exist" =>
                /\ row \in followers'
                /\ \A m \in {1, config_max_retries, 999, 1000} :
                       row.username \notin
                           ListNames(get_pending(followers', BATCH_SIZE, m))
                /\ op' \in {"_lookup_single", "_batch_lookup", "update_result"}
                       => \A k \in DOMAIN arg' : arg'[k] # row.username
      ]_vars

\* In a later run the scraping phase claims the other follower next to a
\* row written for a profile that does not exist.
C22_Witness ==
    /\ restarts = 1
    /\ op = "get_pending"
    /\ pc = "insta_wait"
    /\ \E row \in followers :
          /\ row.error_message = "Profile does not exist"
          /\ row.retry_count = 999
          /\ row.username \notin ListNames(batch)

\* C23: a lookup of the scraping phase that ends in a transient connection
\* error writes the row rate_limited with retry_count one greater and
\* nothing else changed; get_pending of the phase returns such a row exactly
\* while its retry_count is below max_retries, and no lookup is sent for a
\* row at max_retries: a follower that meets connection errors only is
\* looked up max_retries times and never claimed after.
C23_TransientBounded ==
    [][/\ (pc = "insta_write" /\ op' = "update_result"
              /\ result[1].error_message = "Connection error") =>
            LET before == RowOf(followers, result[1].username)
                after == RowOf(followers', result[1].username)
            IN  /\ before.retry_count < config_max_retries
                /\ after = [before EXCEPT
                                !.lookup_status = RATE_LIMITED,
                                !.error_message = "Connection error",
                                !.retry_count = before.retry_count + 1]
       /\ (pc = "insta_claim" /\ op' = "get_pending") =>
            \A row \in followers :
                row.error_message = "Connection error" =>
                    (row.username \in ListNames(batch')
                        <=> row.retry_count < config_max_retries)
       /\ op' = "_lookup_single" =>
            RowOf(followers, arg'[1]).retry_count < config_max_retries
      ]_vars

\* One run of the scraping phase in which a follower has met max_retries
\* connection errors and get_pending then returns nothing.
C23_Witness ==
    /\ restarts = 0
    /\ mode = "instaloader"
    /\ op = "get_pending"
    /\ batch = <<>>
    /\ stop_reason = "completed"
    /\ \E row \in followers :
          /\ row.lookup_status = RATE_LIMITED
          /\ row.error_message = "Connection error"
          /\ row.retry_count = config_max_retries

\* C24: in the loop of the scraping phase the k-th of k lookups in a row that
\* end rate_limited, no success between them, is followed by a backoff of
\* rate_limit_cooldown * 2^(k-1).  (With no success and no failure counted,
\* the processed followers are the rate-limited ones, in a row from the
\* start of the loop.)
C24_LoopBackoffGrows ==
    [][(pc = "insta_backoff" /\ op' = "handle_rate_limit"
          /\ success_count = 0 /\ fail_count = 0 /\ processed < MaxCount) =>
        /\ ret' = <<"backoff", rate_limit_cooldown * Pow2(processed - 1)>>
        /\ now' - now = rate_limit_cooldown * Pow2(processed - 1)
      ]_vars

\* C25: in the loop of the scraping phase the steps that handle a result
\* that is rate_limited (the bookkeeping after update_result, and the
\* backoff) leave the hourly and daily deques and the session counter as
\* they were before the lookup.
C25_ThrottledNotCounted ==
    [][(pc \in {"insta_record", "insta_backoff"}
          /\ op' \in {"record_request", "handle_rate_limit"}
          /\ result[1].lookup_status = RATE_LIMITED) =>
        /\ hourly_timestamps' = hourly_timestamps
        /\ daily_timestamps' = daily_timestamps
        /\ session_count' = session_count
      ]_vars

\* The count a dict reports under a key, 0 where it has no such key.
Reported(dict, key) == IF key \in DOMAIN dict THEN dict[key] ELSE 0

\* C26: in every state get_stats reports a count for each of the five
\* statuses, the five counts add up to the total it reports, the counts by
\* source add up to the success count, and the final report of a lookup run
\* printed from it ends without an error.
C26_StatsComplete ==
    LET stats == get_stats(followers) IN
    /\ {"pending", "graph_api_miss", "success", "failed", "rate_limited"}
            \subseteq DOMAIN stats
    /\ Reported(stats, "pending") + Reported(stats, "graph_api_miss")
            + Reported(stats, "success") + Reported(stats, "failed")
            + Reported(stats, "rate_limited") = stats.total
    /\ Reported(stats.by_source, "graph_api")
            + Reported(stats.by_source, "instaloader") = stats.success
    /\ print_stats(stats) = "ok"
    /\ exit # "KeyError"

\* Whether Follower a has to be listed before Follower b in an export view:
\* successes first, then the greater follower count, an unset count last,
\* and among equal counts the lesser username.
ListedBefore(a, b) ==
    LET class(f) == IF f.lookup_status = SUCCESS THEN 0 ELSE 1 IN
    \/ class(a) < class(b)
    \/ /\ class(a) = class(b)
       /\ a.follower_count # NoInt
       /\ b.follower_count = NoInt \/ a.follower_count > b.follower_count
    \/ /\ class(a) = class(b)
       /\ a.follower_count = b.follower_count
       /\ Rank(a.username) < Rank(b.username)

\* C27: get_all_completed lists exactly the successes and get_all every row,
\* both in one determined order: successes first, by descending follower
\* count with unset counts last, equal counts in ascending username order.
C27_ExportOrdered ==
    [][op' \in {"get_all_completed", "get_all"} =>
        /\ ListNames(batch') =
              {row.username : row \in
                  {r \in followers : op' = "get_all"
                                        \/ r.lookup_status = SUCCESS}}
        /\ Len(batch') = Cardinality(ListNames(batch'))
        /\ \A i, j \in DOMAIN batch' :
              i < j => ~ListedBefore(batch'[j], batch'[i])
      ]_vars

\* C28: a response that cannot be classified (a batch body that is not the
\* list of sub-responses or holds a sub-response that is not an object; an
\* unexpected exception of the lookup library) stays with its follower in
\* both phases: no exception ends the phase, the followers concerned get a
\* failure status and an error message, and the loop goes on to write them.
C28_PerItemBoundary ==
    [][/\ (op' = "_batch_lookup" /\ ret'[1] = "malformed") =>
            /\ exit' = "running"
            /\ pc' = "graph_write"
            /\ Len(batch') = Len(batch)
            /\ \A i \in DOMAIN batch' :
                  /\ batch'[i].lookup_status
                        \in {GRAPH_API_MISS, FAILED, RATE_LIMITED}
                  /\ batch'[i].error_message # None
       /\ (op' = "_lookup_single" /\ ret'[1] = "unexpected") =>
            /\ exit' = "running"
            /\ pc' = "insta_write"
            /\ result'[1].lookup_status = FAILED
            /\ result'[1].error_message # None
      ]_vars

\* C29: in every state a row has a lookup_source exactly when it is a
\* success, and a row that is not a success has no follower count, following
\* count, name, verified flag or private flag.
C29_SourceAndMetrics ==
    \A row \in followers :
        /\ row.lookup_source # None <=> row.lookup_status = SUCCESS
        /\ row.lookup_status # SUCCESS =>
              /\ row.follower_count = NoInt
              /\ row.following_count = NoInt
              /\ row.full_name = None
              /\ row.is_verified = NoInt
              /\ row.is_private = NoInt

\* The recorded requests of the last hour at time t, a request exactly one
\* hour old not among them.
RecentHour(timestamps, t) ==
    Len(SelectSeq(timestamps, LAMBDA x : x > t - HourWindow))

\* C30: in the loop of the scraping phase, whenever wait_before_request
\* returns (does not raise) fewer than hourly_cap recorded requests lie in
\* the hour before, and at no time do more than hourly_cap lie in it.
C30_HourlyRespected ==
    [][/\ (pc = "insta_wait" /\ op' = "wait_before_request"
              /\ ret'[1] # "StopIteration") =>
            RecentHour(hourly_timestamps', now') < hourly_cap
       /\ pc' \in InstaLoop =>
            RecentHour(hourly_timestamps', now') <= hourly_cap
      ]_vars

\* The states of one run of the scraping phase: its loop, and the return to
\* main.lookup, where the limiter of the phase still stands.
InScrapingRun == pc \in InstaLoop \cup {"final"}

\* C31: in every state of a run of the scraping phase at most daily_cap
\* recorded requests lie in the trailing 24 hours (an event exactly 24 hours
\* old counted in) and the session counter is at most session_cap.
C31_CapsRespected ==
    InScrapingRun =>
        /\ Len(WithinWindow(daily_timestamps, now, DayWindow)) <= daily_cap
        /\ session_count <= session_cap

\* The loop has just recorded the request that fills the daily window, after
\* a session that was filled and rested.
C31_Witness ==
    /\ pc \in InstaLoop
    /\ op = "record_request"
    /\ Len(WithinWindow(daily_timestamps, now, DayWindow)) = daily_cap
    /\ session_count >= 1
    /\ session_count < Len(daily_timestamps)

====
